---- MODULE Spec2Model ----
(***************************************************************************)
(* Model of the networked device layer of loka-verk-verk:                  *)
(*   - the buffered publish/subscribe clients AsyncMQTT (src/src/mqtt.py,  *)
(*     on umqtt.robust) and MQTT_Client (src/master_tts/mqtt_client.py, on *)
(*     paho-mqtt): subscribe, _on_rx, poll, start;                         *)
(*   - the device channels MQTT_ServoMotor, MQTT_RGB_Led and MQTT_Neopixel *)
(*     (src/src/networked_components.py) on top of ServoMotor              *)
(*     (src/src/motors.py), RGB_Led (src/src/rgbs.py) and NeoPixel;        *)
(*   - the debug servo listener AsyncTCP_ServoMotor with its client        *)
(*     TCP_ServoMotor_Master (src/src_master/networked_motors_master.py);  *)
(*   - the audio listener AsyncTCP_AudioPlayer with its client             *)
(*     AudioStreamer (src/master_tts/audio_streamer.py).                   *)
(* Fractions are counted in tenths (5 is 0.5), durations in tenths of a    *)
(* second.                                                                 *)
(***************************************************************************)
EXTENDS Integers, Sequences, FiniteSets, TLC

VARIABLES
    kind,             \* which client class: "umqtt" (AsyncMQTT) or "paho" (MQTT_Client)
    callbacks,        \* self.callbacks: topic -> list of handlers (a dict: only subscribed keys)
    callback_buffer,  \* self.callback_buffer: list of (topic, payload), tagged with the arrival number
    loop_task,        \* self.loop_task: "None" or "Task"
    taskPc,           \* the poll_loop task: "none", "ready", "poll", "sleep", "dead"
    taskIgnore,       \* ignore_errors captured by poll_loop
    interval,         \* interval captured by poll_loop
    taskSleep,        \* duration of the timed suspension the task is in (0: not in one)
    tasksCreated,     \* number of asyncio.create_task calls made by start
    starts,           \* number of start calls
    startResult,      \* outcome of the last start call: "none", "ok", "RuntimeError"
    pollPc,           \* the active poll call: "idle", "check", "drain", "handler", "sleep"
    pollLog,          \* history: every poll call, with who awaits it ("task", "caller"), its
                      \* ignore_errors and its outcome ("active", "returned", "raised")
    cur,              \* the (topic, message) popped by the active poll
    idx,              \* position in self.callbacks[topic] of the handler being awaited
    completed,        \* number of popped messages whose handler loop has ended
    arrivals,         \* history: every message _on_rx enqueued, in order
    calls,            \* history: every handler invocation, in order
    subLog,           \* history: every subscribe call, in order
    subReqs,          \* transport: the subscribe requests sent (client.subscribe)
    current_value,    \* MQTT_ServoMotor.current_value
    published,        \* transport: the messages published by the servo channel
    lastWrite,        \* outcome of the last MQTT_ServoMotor.write call
    current_color,    \* MQTT_RGB_Led.current_color
    rgb,              \* RGB_Led: the duties of the red, green and blue PWM outputs
    ledPublished,     \* transport: the messages published by the LED channel
    lastLedWrite,     \* outcome of the last MQTT_RGB_Led.write call
    current_colors,   \* MQTT_Neopixel.current_colors (<<>> stands for None)
    np,               \* NeoPixel: the pixel buffer written by np[i] = color
    shown,            \* NeoPixel: the colors on the strip, as of the last np.write()
    stripPublished,   \* transport: the messages published by the strip channel
    lastStripWrite,   \* outcome of the last strip write call or strip handler
    tcpServer,        \* AsyncTCP_ServoMotor.server: "None" or "Server"
    tcp_current_value, \* AsyncTCP_ServoMotor.current_value
    conn,             \* the connections to the servo listener: for each, where its
                      \* handle_connection task is, the bytes received and not yet read,
                      \* whether the peer has closed, the bytes replied, and the client
    tcpLog,           \* history: the commands the servo listener has read, in order
    audioServer,      \* AsyncTCP_AudioPlayer.server: "None" or "Server"
    sess              \* the connections to the audio listener: for each, where its
                      \* handle_connection task is and its locals, the bytes received
                      \* and not yet read, the acks not yet received by the client, the
                      \* I2S sink, the AudioStreamer at the other end, and the history
                      \* of what the server did

ledVars == <<current_color, rgb, ledPublished, lastLedWrite>>
stripVars == <<current_colors, np, shown, stripPublished, lastStripWrite>>
tcpVars == <<tcpServer, tcp_current_value, conn, tcpLog>>
audioVars == <<audioServer, sess>>
streamVars == <<tcpVars, audioVars>>
deviceVars == <<ledVars, stripVars, streamVars>>

vars == <<kind, callbacks, callback_buffer, loop_task, taskPc, taskIgnore, interval,
          taskSleep, tasksCreated, starts, startResult, pollPc, pollLog, cur, idx,
          completed, arrivals, calls, subLog, subReqs, current_value, published,
          lastWrite, deviceVars>>

clientVars == <<callbacks, callback_buffer, subLog, subReqs, arrivals>>
taskVars == <<loop_task, taskPc, taskIgnore, interval, taskSleep, tasksCreated,
              starts, startResult>>
pollVars == <<pollPc, pollLog, cur, idx, completed, calls>>
servoVars == <<current_value, published, lastWrite>>
busVars == <<kind, clientVars, taskVars, pollVars, servoVars, ledVars, stripVars>>

----------------------------------------------------------------------------
(* Bounds of the model *)

MaxMsgs == 2
MaxSubs == 2
MaxPolls == 2
MaxStarts == 2
MaxPubs == 2
MaxConns == 2
MaxCmds == 2

----------------------------------------------------------------------------
(* Inputs *)

Kinds == {"umqtt", "paho"}

ServoRoot == "hand_servo"
ServoWriteTopic == "hand_servo/write"
ServoReadTopic == "hand_servo/read"
ServoHandler == "_on_write_packet"

\* a topic other than a device channel's, and two handlers other than a device
\* channel's: h1 returns normally, h2 raises an Exception
GenericTopic == "a"
Topics == {GenericTopic, ServoWriteTopic}
GenericHandlers == {"h1", "h2"}
HandlerRaises(h) == h = "h2"
\* the subscribe calls made after construction
Subscriptions ==
    {<<GenericTopic, "h1">>, <<GenericTopic, "h2">>, <<ServoWriteTopic, "h1">>}

\* payloads on the wire: text that is not JSON, a JSON object without "percent",
\* and {"percent": v/10}
Text == [json |-> FALSE, has |-> FALSE, percent |-> 0]
NoPercent == [json |-> TRUE, has |-> FALSE, percent |-> 0]
Percent(v) == [json |-> TRUE, has |-> TRUE, percent |-> v]

Fractions == {-5, 0, 5, 10, 15}
BusFractions == {5, 15}
Intervals == {10, 20}

\* messages the broker delivers: to the client in general, to the poll task, to
\* the servo channel
Inbound ==
    {[topic |-> GenericTopic, payload |-> Text],
     [topic |-> ServoWriteTopic, payload |-> Text]}
TaskInbound == {[topic |-> GenericTopic, payload |-> Text]}
ServoInbound ==
    {[topic |-> ServoWriteTopic, payload |-> p] :
        p \in {Text, NoPercent} \cup {Percent(v) : v \in BusFractions}}

NoMsg == [topic |-> "", payload |-> Text, id |-> 0]

\* JSON values: a number, or a value that is not a number (a string)
Num(n) == [num |-> TRUE, v |-> n]
Str == [num |-> FALSE, v |-> 0]

LedRoot == "skull1/eyes"
LedWriteTopic == "skull1/eyes/write"
LedReadTopic == "skull1/eyes/read"
LedHandler == "MQTT_RGB_Led._on_write_packet"

\* colors of the LED: tuples (r, g, b)
Off == <<Num(0), Num(0), Num(0)>>
LedRed == <<Num(255), Num(0), Num(0)>>
LedMagenta == <<Num(255), Num(0), Num(255)>>
LedBright == <<Num(300), Num(0), Num(0)>>
LedColors == {Off, LedRed, LedMagenta}

\* payloads on the LED write topic: text that is not JSON, a JSON array, a JSON
\* object with some of the fields r, g, b (none of them in {})
LedText == [shape |-> "text", obj |-> <<>>]
LedArray == [shape |-> "array", obj |-> <<>>]
LedObject(fields) == [shape |-> "object", obj |-> fields]
LedPayloads ==
    {LedText, LedArray,
     LedObject("r" :> Num(255)),
     LedObject(("r" :> Num(255)) @@ ("g" :> Str))}
LedInbound == {[topic |-> LedWriteTopic, payload |-> p] : p \in LedPayloads}

\* colors and payloads with a channel above 255, and payloads that leave fields out
LedFieldColors == {LedMagenta, LedBright}
LedFieldPayloads ==
    {LedObject(<<>>), LedObject("g" :> Num(255)), LedObject("r" :> Num(300))}
LedFieldInbound == {[topic |-> LedWriteTopic, payload |-> p] : p \in LedFieldPayloads}

NoLedWrite ==
    [color |-> Off, err |-> "none", before |-> Off, devBefore |-> <<0, 0, 0>>,
     pubBefore |-> 0, called |-> FALSE]

\* the strip: np.n pixels, colors are tuples (r, g, b) of ints
StripLength == 2
Black == <<0, 0, 0>>
Red == <<255, 0, 0>>
Green == <<0, 255, 0>>

AllOf(color) == [i \in 1..StripLength |-> color]

StripRoot == "strip"
StripListTopic == "strip/write/list"
StripSingleTopic == "strip/write/single"
StripAllTopic == "strip/write/all"
StripReadTopic == "strip/read"
StripListHandler == "_on_write_list_packet"
StripSingleHandler == "_on_write_single_packet"
StripAllHandler == "_on_write_all_packet"
StripHandlers == {StripListHandler, StripSingleHandler, StripAllHandler}

\* a color in a JSON payload: an array of JSON values
ColorArray(items) == [arr |-> TRUE, items |-> items]
JsonRed == ColorArray(<<Num(255), Num(0), Num(0)>>)
JsonBright == ColorArray(<<Num(300), Num(0), Num(0)>>)
JsonPair == ColorArray(<<Num(255), Num(0)>>)

\* payloads on the strip write topics: text that is not JSON, a JSON array of colors
\* (write/list), a JSON object with some of the fields index, color
StripText == [shape |-> "text", list |-> <<>>, obj |-> <<>>]
StripList(colors) == [shape |-> "array", list |-> colors, obj |-> <<>>]
StripObject(fields) == [shape |-> "object", list |-> <<>>, obj |-> fields]
StripInbound ==
    {[topic |-> StripListTopic, payload |-> StripList(<<JsonRed, JsonBright>>)],
     [topic |-> StripSingleTopic,
      payload |-> StripObject(("index" :> Num(1)) @@ ("color" :> JsonRed))],
     [topic |-> StripSingleTopic,
      payload |-> StripObject(("index" :> Num(StripLength)) @@ ("color" :> JsonRed))],
     [topic |-> StripSingleTopic,
      payload |-> StripObject(("index" :> Num(-1)) @@ ("color" :> JsonRed))],
     [topic |-> StripAllTopic, payload |-> StripObject("color" :> JsonPair)],
     [topic |-> StripAllTopic, payload |-> StripText]}

\* the local strip writes: write_list(colors), write_single(i, color), write_all(color)
StripLists == {<<Red, Black>>, <<Black, Red>>, <<Red>>}
StripIndexes == {-1, 0, StripLength}
StripColors == {Black, Red, Green}

\* the debug servo protocol: connections, command bytes, and the values written
Conns == 1..MaxConns
ReadCmd == 0
WriteCmd == 1
OtherCmd == 2
TcpFractions == {5, 15}
NoConn == [pc |-> "none", rbuf |-> <<>>, eof |-> FALSE, out |-> <<>>,
           client |-> "none", sent |-> 0]

\* the audio protocol: what an AudioStreamer streams (frames and packet_size in
\* samples), and the size of the header
Audio(frames, packet_size, bits) ==
    [rate |-> 16000, channels |-> 1, bits |-> bits, frames |-> frames,
     packet_size |-> packet_size]
Audios == {Audio(0, 1, 16), Audio(3, 1, 16), Audio(4, 2, 16), Audio(5, 2, 16),
           Audio(3, 1, 8)}
HeaderSize == 20
NoSession ==
    [pc |-> "none", hdr |-> Audio(0, 1, 16), samples_read |-> 0, rbuf |-> 0,
     eof |-> FALSE, acks |-> 0, sinkOpen |-> FALSE, sink |-> 0, packet |-> 0,
     client |-> "none", i |-> 0, sending |-> 0, log |-> <<>>]

NoStripWrite ==
    [op |-> "none", index |-> Num(0), err |-> "none", before |-> <<>>,
     shownBefore |-> <<>>, pubBefore |-> 0]
NoWrite == [value |-> 0, err |-> "none", before |-> 0, pubBefore |-> 0, called |-> FALSE]

----------------------------------------------------------------------------
(* ServoMotor (src/src/motors.py) and MQTT_ServoMotor *)

\* the attributes class ServoMotor defines
ServoMotorMethods == {"__init__", "write_duty", "write_angle"}

\* self.motor.write_fraction(value): the attribute lookup on a ServoMotor
ServoMotor_write_fraction(value) ==
    IF "write_fraction" \in ServoMotorMethods THEN "none" ELSE "AttributeError"

\* MQTT_ServoMotor.write(value) from cached value cv and publish log pub
MQTT_ServoMotor_write(value, cv, pub) ==
    LET e == ServoMotor_write_fraction(value) IN
    IF e # "none"
    THEN [err |-> e, value |-> cv, pub |-> pub]
    ELSE IF value # cv
         THEN [err |-> "none", value |-> value,
               pub |-> Append(pub, [topic |-> ServoReadTopic, percent |-> value])]
         ELSE [err |-> "none", value |-> cv, pub |-> pub]

\* MQTT_ServoMotor.read()
MQTT_ServoMotor_read == current_value

\* what a write call leaves behind for an observer
WriteRecord(value, out) ==
    [value |-> value, err |-> out.err, before |-> current_value,
     pubBefore |-> Len(published), called |-> TRUE]

\* MQTT_ServoMotor._on_write_packet(topic, message)
MQTT_ServoMotor_on_write_packet(payload, cv, pub) ==
    IF ~payload.json
    THEN [err |-> "ValueError", value |-> cv, pub |-> pub, wrote |-> FALSE]
    ELSE IF payload.has
         THEN LET out == MQTT_ServoMotor_write(payload.percent, cv, pub) IN
              [err |-> out.err, value |-> out.value, pub |-> out.pub, wrote |-> TRUE]
         ELSE [err |-> "none", value |-> cv, pub |-> pub, wrote |-> FALSE]

----------------------------------------------------------------------------
(* RGB_Led (src/src/rgbs.py) and MQTT_RGB_Led *)

\* RGB_Led.set_color(colors): red_pwm.duty, green_pwm.duty, blue_pwm.duty in turn;
\* PWM.duty converts its argument to an int and raises TypeError for a value that
\* is not a number, the outputs set before it keep their new duty
RGB_Led_set_color(colors, dev) ==
    IF ~colors[1].num
    THEN [err |-> "TypeError", dev |-> dev]
    ELSE IF ~colors[2].num
         THEN [err |-> "TypeError", dev |-> <<colors[1].v, dev[2], dev[3]>>]
         ELSE IF ~colors[3].num
              THEN [err |-> "TypeError", dev |-> <<colors[1].v, colors[2].v, dev[3]>>]
              ELSE [err |-> "none", dev |-> <<colors[1].v, colors[2].v, colors[3].v>>]

\* MQTT_RGB_Led.write(color) from cached color cc, device dev and publish log pub
MQTT_RGB_Led_write(color, cc, dev, pub) ==
    LET s == RGB_Led_set_color(color, dev) IN
    IF s.err # "none"
    THEN [err |-> s.err, color |-> cc, dev |-> s.dev, pub |-> pub, wrote |-> TRUE]
    ELSE IF color # cc
         THEN [err |-> "none", color |-> color, dev |-> s.dev,
               pub |-> Append(pub, [topic |-> LedReadTopic, color |-> color]),
               wrote |-> TRUE]
         ELSE [err |-> "none", color |-> cc, dev |-> s.dev, pub |-> pub, wrote |-> TRUE]

\* MQTT_RGB_Led.read()
MQTT_RGB_Led_read == current_color

\* mutant: a missing field reads as 0
GetOrZero(obj, field, default) == IF field \in DOMAIN obj THEN obj[field] ELSE Num(0)

\* message_data.get(field, default)
Get(obj, field, default) == IF field \in DOMAIN obj THEN obj[field] ELSE default

\* the tuple (r, g, b) _on_write_packet builds from a JSON object
LedPacketColor(obj, cc) ==
    <<Get(obj, "r", cc[1]), Get(obj, "g", cc[2]), Get(obj, "b", cc[3])>>

\* MQTT_RGB_Led._on_write_packet(topic, message): json.loads raises ValueError for
\* text that is not JSON, .get is no attribute of a JSON array
MQTT_RGB_Led_on_write_packet(payload, cc, dev, pub) ==
    IF payload.shape = "text"
    THEN [err |-> "ValueError", color |-> cc, dev |-> dev, pub |-> pub, wrote |-> FALSE]
    ELSE IF payload.shape = "array"
         THEN [err |-> "AttributeError", color |-> cc, dev |-> dev, pub |-> pub,
               wrote |-> FALSE]
         ELSE MQTT_RGB_Led_write(LedPacketColor(payload.obj, cc), cc, dev, pub)

\* what a write call leaves behind for an observer
LedWriteRecord(color, out) ==
    [color |-> color, err |-> out.err, before |-> current_color, devBefore |-> rgb,
     pubBefore |-> Len(ledPublished), called |-> TRUE]

----------------------------------------------------------------------------
(* MQTT_Neopixel *)

\* max(0, min(255, v))
Clamp(v) == IF v < 0 THEN 0 ELSE IF v > 255 THEN 255 ELSE v

\* MQTT_Neopixel.validate_color(color): len() of a number and min() of a string
\* and a number raise TypeError
MQTT_Neopixel_validate_color(color) ==
    IF ~color.arr
    THEN [err |-> "TypeError", color |-> Black]
    ELSE IF Len(color.items) # 3
         THEN [err |-> "none", color |-> Black]
         ELSE IF \E k \in 1..3 : ~color.items[k].num
              THEN [err |-> "TypeError", color |-> Black]
              ELSE [err |-> "none",
                    color |-> <<Clamp(color.items[1].v), Clamp(color.items[2].v),
                                Clamp(color.items[3].v)>>]

\* MQTT_Neopixel.read(): `self.current_colors or [(0, 0, 0)] * self.length`
MQTT_Neopixel_read(cc) == IF cc # <<>> THEN cc ELSE AllOf(Black)

\* the state of the strip channel a write works on
StripState == [cc |-> current_colors, np |-> np, shown |-> shown, pub |-> stripPublished]

Failed(e, st) == [err |-> e, cc |-> st.cc, np |-> st.np, shown |-> st.shown, pub |-> st.pub]

\* mutant: a publish_colors that skips a payload equal to the last one published
PublishUnlessRepeated(cc, pub) ==
    IF pub # <<>> /\ pub[Len(pub)].colors = MQTT_Neopixel_read(cc)
    THEN pub
    ELSE Append(pub, [topic |-> StripReadTopic, colors |-> MQTT_Neopixel_read(cc)])

\* MQTT_Neopixel.publish_colors()
MQTT_Neopixel_publish_colors(cc, pub) ==
    Append(pub, [topic |-> StripReadTopic, colors |-> MQTT_Neopixel_read(cc)])

\* seq[i] = color for a Python index i: negative indexes count from the end
SetItem(seq, i, color) ==
    IF i >= 0 /\ i < Len(seq)
    THEN [seq EXCEPT ![i + 1] = color]
    ELSE IF i < 0 /\ i >= -Len(seq)
         THEN [seq EXCEPT ![Len(seq) + i + 1] = color]
         ELSE seq

\* mutant: a range test without its lower bound
IndexBelowLength(i, length) == i < length

\* the negation of `i < 0 or i >= self.length`
IndexInRange(i, length) == ~(i < 0 \/ i >= length)

\* mutant: a write_list without the test of the length
WriteListUnchecked(colors, st) ==
    [err |-> "none", cc |-> colors,
     np |-> [k \in 1..StripLength |-> IF k <= Len(colors) THEN colors[k] ELSE st.np[k]],
     shown |-> [k \in 1..StripLength |-> IF k <= Len(colors) THEN colors[k] ELSE st.np[k]],
     pub |-> MQTT_Neopixel_publish_colors(colors, st.pub)]

\* MQTT_Neopixel.write_list(colors)
MQTT_Neopixel_write_list(colors, st) ==
    IF Len(colors) # StripLength
    THEN Failed("ValueError: invalid length", st)
    ELSE [err |-> "none", cc |-> colors, np |-> colors, shown |-> colors,
          pub |-> MQTT_Neopixel_publish_colors(colors, st.pub)]

\* MQTT_Neopixel.write_single(i, color); `i < 0` raises TypeError for an i that is
\* not a number
MQTT_Neopixel_write_single(i, color, st) ==
    IF ~i.num
    THEN Failed("TypeError", st)
    ELSE IF ~IndexInRange(i.v, StripLength)
         THEN Failed("ValueError: invalid led index", st)
         ELSE IF i.v >= StripLength \/ i.v < -StripLength
              THEN Failed("IndexError", st)
              ELSE LET pixels == SetItem(st.np, i.v, color)
                       colors == SetItem(st.cc, i.v, color) IN
                   [err |-> "none", cc |-> colors, np |-> pixels, shown |-> pixels,
                    pub |-> MQTT_Neopixel_publish_colors(colors, st.pub)]

\* MQTT_Neopixel.write_all(color)
MQTT_Neopixel_write_all(color, st) ==
    [err |-> "none", cc |-> AllOf(color), np |-> AllOf(color), shown |-> AllOf(color),
     pub |-> MQTT_Neopixel_publish_colors(AllOf(color), st.pub)]

\* MQTT_Neopixel._on_write_list_packet(topic, message)
MQTT_Neopixel_on_write_list_packet(payload, st) ==
    IF payload.shape # "array"
    THEN [out |-> Failed("ValueError", st), wrote |-> FALSE, index |-> Num(0)]
    ELSE LET vs == [k \in 1..Len(payload.list) |->
                       MQTT_Neopixel_validate_color(payload.list[k])] IN
         IF \E k \in 1..Len(vs) : vs[k].err # "none"
         THEN [out |-> Failed("TypeError", st), wrote |-> FALSE, index |-> Num(0)]
         ELSE [out |-> MQTT_Neopixel_write_list([k \in 1..Len(vs) |-> vs[k].color], st),
               wrote |-> TRUE, index |-> Num(0)]

\* the color of a JSON object: message_data.get("color", (0, 0, 0)), validated
PacketColor(obj) ==
    MQTT_Neopixel_validate_color(
        Get(obj, "color", ColorArray(<<Num(0), Num(0), Num(0)>>)))

\* MQTT_Neopixel._on_write_single_packet(topic, message)
MQTT_Neopixel_on_write_single_packet(payload, st) ==
    IF payload.shape # "object"
    THEN [out |-> Failed("ValueError", st), wrote |-> FALSE, index |-> Num(0)]
    ELSE IF "index" \notin DOMAIN payload.obj
         THEN [out |-> Failed("none", st), wrote |-> FALSE, index |-> Num(0)]
         ELSE IF PacketColor(payload.obj).err # "none"
              THEN [out |-> Failed("TypeError", st), wrote |-> FALSE, index |-> Num(0)]
              ELSE [out |-> MQTT_Neopixel_write_single(payload.obj["index"],
                                    PacketColor(payload.obj).color, st),
                    wrote |-> TRUE, index |-> payload.obj["index"]]

\* MQTT_Neopixel._on_write_all_packet(topic, message)
MQTT_Neopixel_on_write_all_packet(payload, st) ==
    IF payload.shape # "object"
    THEN [out |-> Failed("ValueError", st), wrote |-> FALSE, index |-> Num(0)]
    ELSE IF PacketColor(payload.obj).err # "none"
         THEN [out |-> Failed("TypeError", st), wrote |-> FALSE, index |-> Num(0)]
         ELSE [out |-> MQTT_Neopixel_write_all(PacketColor(payload.obj).color, st),
               wrote |-> TRUE, index |-> Num(0)]

\* the write method each strip handler ends in
StripOp(h) ==
    IF h = StripListHandler THEN "list"
    ELSE IF h = StripSingleHandler THEN "single" ELSE "all"

\* what a strip write call leaves behind for an observer
StripWriteRecord(op, i, out, st) ==
    [op |-> op, index |-> i, err |-> out.err, before |-> st.cc,
     shownBefore |-> st.shown, pubBefore |-> Len(st.pub)]

----------------------------------------------------------------------------
(* The client: subscribe, _on_rx *)

\* the poll coroutine is not running: no poll is active, or it awaits a handler, or it sleeps
\* the active poll call is the last one made
pollNo == Len(pollLog)
pollBy == pollLog[pollNo].by
pollIgnore == pollLog[pollNo].ign

Yielded == pollPc \in {"idle", "handler", "sleep"}

\* mutant: a subscribe that registers a handler once per topic
RegisterOnce(cbs, topic, h) ==
    IF topic \in DOMAIN cbs
    THEN IF \E k \in 1..Len(cbs[topic]) : cbs[topic][k] = h
         THEN cbs
         ELSE [cbs EXCEPT ![topic] = Append(@, h)]
    ELSE cbs @@ (topic :> <<h>>)

\* self.callbacks after subscribe(topic, callback_fn)
Register(cbs, topic, h) ==
    IF topic \in DOMAIN cbs
    THEN [cbs EXCEPT ![topic] = Append(@, h)]
    ELSE cbs @@ (topic :> <<h>>)

\* subscribe(topic, callback_fn, qos)
Subscribe(topic, h) ==
    /\ Yielded
    /\ Len(subLog) < MaxSubs + 1
    /\ callbacks' = Register(callbacks, topic, h)
    /\ subReqs' = Append(subReqs, topic)
    /\ subLog' = Append(subLog, [topic |-> topic, h |-> h, done |-> completed])
    /\ UNCHANGED <<kind, callback_buffer, arrivals, taskVars, pollVars, servoVars, deviceVars>>

\* mutant: an _on_rx that enqueues whatever it receives
EnqueueAlways(buf, cbs, m, n) ==
    Append(buf, [topic |-> m.topic, payload |-> m.payload, id |-> n])

\* self.callback_buffer after _on_rx(topic, message); n is the arrival number
Enqueue(buf, cbs, m, n) ==
    IF m.topic \in DOMAIN cbs
    THEN Append(buf, [topic |-> m.topic, payload |-> m.payload, id |-> n])
    ELSE buf

\* history of the enqueued messages: each with the poll (if any) whose handlers were
\* running when it was enqueued
Arrived(buf, m) ==
    IF buf # callback_buffer
    THEN Append(arrivals, [topic |-> m.topic, payload |-> m.payload,
                           during |-> IF pollPc = "handler" THEN pollNo ELSE 0])
    ELSE arrivals

\* mutant: an _on_rx that runs the first handler of the topic itself
OnRxDispatches(m) ==
    LET buf == Enqueue(callback_buffer, callbacks, m, Len(arrivals) + 1) IN
    /\ callback_buffer' = buf
    /\ arrivals' = Arrived(buf, m)
    /\ calls' = IF m.topic \in DOMAIN callbacks
                THEN Append(calls, [msg |-> Len(arrivals) + 1, pos |-> 0,
                                    h |-> callbacks[m.topic][1], poll |-> pollNo,
                                    raised |-> FALSE])
                ELSE calls
    /\ UNCHANGED <<callbacks, subLog, subReqs, servoVars, deviceVars>>

\* the effect of _on_rx(topic, message) on the client
OnRxEffect(m) ==
    LET buf == Enqueue(callback_buffer, callbacks, m, Len(arrivals) + 1) IN
    /\ callback_buffer' = buf
    /\ arrivals' = Arrived(buf, m)
    /\ UNCHANGED <<callbacks, subLog, subReqs, calls, servoVars, deviceVars>>

\* _on_rx(topic, message), called by the transport: from the paho network thread at
\* any time; on umqtt from the wait_msg loops of subscribe and publish(qos=1), which
\* run while the poll coroutine is not running
OnRx(m) ==
    /\ kind = "paho" \/ pollPc \in {"idle", "handler"}
    /\ Len(arrivals) < MaxMsgs
    /\ OnRxEffect(m)
    /\ UNCHANGED <<kind, taskVars, pollPc, pollLog, cur, idx, completed>>

----------------------------------------------------------------------------
(* poll(ignore_errors) *)

\* sleep of MQTT_Client.poll between two drains, in tenths of a second
PollSleep == 1

\* the entry point of poll: AsyncMQTT tests check_msg(), MQTT_Client the buffer
PollEntry == IF kind = "umqtt" THEN "check" ELSE "drain"

\* a poll call begins; one poll call is active at a time (poll is awaited by the one
\* task of start, or by a caller when no poll is running)
BeginPoll(by, ign) ==
    /\ pollPc = "idle"
    /\ pollNo < MaxPolls
    /\ pollPc' = PollEntry
    /\ pollLog' = Append(pollLog, [by |-> by, ign |-> ign, result |-> "active"])
    /\ UNCHANGED <<cur, idx, completed, calls>>

\* await client.poll(ignore_errors) by a caller other than the poll task
CallerPoll(ign) ==
    /\ BeginPoll("caller", ign)
    /\ UNCHANGED <<kind, clientVars, taskVars, servoVars, deviceVars>>

\* poll returns or raises: whoever awaits it goes on
EndPoll(result) ==
    /\ pollPc' = "idle"
    /\ pollLog' = [pollLog EXCEPT ![pollNo].result = result]
    /\ cur' = NoMsg
    /\ idx' = 0
    /\ IF pollBy = "task"
       THEN IF result = "raised"
            THEN /\ taskPc' = "dead"
                 /\ taskSleep' = 0
            ELSE /\ taskPc' = "sleep"
                 /\ taskSleep' = interval
       ELSE UNCHANGED <<taskPc, taskSleep>>
    /\ UNCHANGED <<kind, loop_task, taskIgnore, interval, tasksCreated, starts,
                   startResult>>

\* AsyncMQTT.poll: check_msg() finds nothing and returns None: the poll returns
CheckMsgNone ==
    /\ kind = "umqtt"
    /\ pollPc = "check"
    /\ EndPoll("returned")
    /\ UNCHANGED <<clientVars, completed, calls, servoVars, deviceVars>>

\* AsyncMQTT.poll: check_msg() reads one publish packet, hands it to _on_rx and
\* returns its opcode (umqtt.simple's wait_msg ends with `return op`), so the while
\* loop of poll goes on
CheckMsgDeliver(m) ==
    /\ kind = "umqtt"
    /\ pollPc = "check"
    /\ Len(arrivals) < MaxMsgs \/ m.topic \notin DOMAIN callbacks
    /\ OnRxEffect(m)
    /\ pollPc' = "drain"
    /\ UNCHANGED <<kind, taskVars, pollLog, cur, idx, completed>>

\* mutant: a drain that stops at the first message enqueued while this poll call was
\* executing handlers
DrainSnapshot(buf) == buf # <<>> /\ arrivals[Head(buf).id].during # pollNo

\* the test of `while self.callback_buffer`
DrainContinues(buf) == buf # <<>>

\* mutant: pop() instead of pop(0)
PopBack(buf) == [msg |-> buf[Len(buf)], rest |-> SubSeq(buf, 1, Len(buf) - 1)]

\* mutant: callback_buffer[0] instead of pop(0)
PeekFront(buf) == [msg |-> Head(buf), rest |-> buf]

\* topic, message = self.callback_buffer.pop(0)
PopFront(buf) == [msg |-> Head(buf), rest |-> Tail(buf)]

\* one pass of `while self.callback_buffer`: pop the first entry and enter its handler
\* loop, or leave the loop when the buffer is empty
Drain ==
    /\ pollPc = "drain"
    /\ IF DrainContinues(callback_buffer)
       THEN LET p == PopFront(callback_buffer) IN
            /\ callback_buffer' = p.rest
            /\ IF p.msg.topic \in DOMAIN callbacks
               THEN /\ pollPc' = "handler"
                    /\ cur' = p.msg
                    /\ idx' = 1
                    /\ UNCHANGED completed
               ELSE /\ completed' = completed + 1
                    /\ UNCHANGED <<pollPc, cur, idx>>
            /\ UNCHANGED taskSleep
       ELSE /\ pollPc' = IF kind = "umqtt" THEN "check" ELSE "sleep"
            /\ taskSleep' = IF kind = "paho" /\ pollBy = "task" THEN PollSleep ELSE taskSleep
            /\ UNCHANGED <<callback_buffer, cur, idx, completed>>
    /\ UNCHANGED <<kind, callbacks, subLog, subReqs, arrivals, loop_task, taskPc,
                   taskIgnore, interval, tasksCreated, starts, startResult, pollLog,
                   calls, servoVars, deviceVars>>

\* MQTT_Client.poll: await asyncio.sleep(0.1) is over
PollWake ==
    /\ pollPc = "sleep"
    /\ pollPc' = "drain"
    /\ taskSleep' = 0
    /\ UNCHANGED <<kind, clientVars, loop_task, taskPc, taskIgnore, interval,
                   tasksCreated, starts, startResult, pollLog, cur, idx, completed,
                   calls, servoVars, deviceVars>>

\* mutant: an except clause that always re-raises
PropagatesAlways(raised, ignore_errors) == raised

\* mutant: an except clause that never re-raises
PropagatesNever(raised, ignore_errors) == FALSE

\* the except clause: TRUE when the exception leaves poll
Propagates(raised, ignore_errors) == raised /\ ~ignore_errors

\* the handler at position idx returns or raises; the for loop goes on, ends, or the
\* exception leaves poll
AfterHandler(h, raised) ==
    /\ calls' = Append(calls, [msg |-> cur.id, pos |-> idx, h |-> h, poll |-> pollNo,
                               raised |-> raised])
    /\ IF Propagates(raised, pollIgnore)
       THEN /\ EndPoll("raised")
            /\ completed' = completed + 1
       ELSE /\ IF idx < Len(callbacks[cur.topic])
               THEN /\ idx' = idx + 1
                    /\ UNCHANGED <<pollPc, cur, completed>>
               ELSE /\ pollPc' = "drain"
                    /\ cur' = NoMsg
                    /\ idx' = 0
                    /\ completed' = completed + 1
            /\ UNCHANGED <<kind, taskVars, pollLog>>

\* await callback(topic, message) for a handler other than a device channel's: it
\* returns or raises
GenericHandlerReturns ==
    /\ pollPc = "handler"
    /\ callbacks[cur.topic][idx] # ServoHandler
    /\ AfterHandler(callbacks[cur.topic][idx], HandlerRaises(callbacks[cur.topic][idx]))
    /\ UNCHANGED <<clientVars, servoVars, deviceVars>>

\* await callback(topic, message) for MQTT_ServoMotor._on_write_packet
ServoHandlerReturns ==
    /\ pollPc = "handler"
    /\ callbacks[cur.topic][idx] = ServoHandler
    /\ LET out == MQTT_ServoMotor_on_write_packet(cur.payload, current_value, published) IN
       /\ current_value' = out.value
       /\ published' = out.pub
       /\ lastWrite' = IF out.wrote THEN WriteRecord(cur.payload.percent, out) ELSE lastWrite
       /\ AfterHandler(ServoHandler, out.err # "none")
    /\ UNCHANGED <<clientVars, deviceVars>>

\* a local call of MQTT_ServoMotor.write(value)
Write(value) ==
    /\ Yielded
    /\ LET out == MQTT_ServoMotor_write(value, current_value, published) IN
       /\ current_value' = out.value
       /\ published' = out.pub
       /\ lastWrite' = WriteRecord(value, out)
    /\ UNCHANGED <<kind, clientVars, taskVars, pollVars, deviceVars>>

\* await callback(topic, message) for MQTT_RGB_Led._on_write_packet
LedHandlerReturns ==
    /\ pollPc = "handler"
    /\ callbacks[cur.topic][idx] = LedHandler
    /\ LET out == MQTT_RGB_Led_on_write_packet(cur.payload, current_color, rgb,
                                               ledPublished) IN
       /\ current_color' = out.color
       /\ rgb' = out.dev
       /\ ledPublished' = out.pub
       /\ lastLedWrite' =
             IF out.wrote
             THEN LedWriteRecord(LedPacketColor(cur.payload.obj, current_color), out)
             ELSE lastLedWrite
       /\ AfterHandler(LedHandler, out.err # "none")
    /\ UNCHANGED <<clientVars, servoVars, stripVars, streamVars>>

\* a local call of MQTT_RGB_Led.write(color)
LedWrite(color) ==
    /\ Yielded
    /\ Len(ledPublished) < MaxPubs
    /\ LET out == MQTT_RGB_Led_write(color, current_color, rgb, ledPublished) IN
       /\ current_color' = out.color
       /\ rgb' = out.dev
       /\ ledPublished' = out.pub
       /\ lastLedWrite' = LedWriteRecord(color, out)
    /\ UNCHANGED <<kind, clientVars, taskVars, pollVars, servoVars, stripVars, streamVars>>

\* the strip channel takes the state `out` of a write
StripBecomes(out) ==
    /\ current_colors' = out.cc
    /\ np' = out.np
    /\ shown' = out.shown
    /\ stripPublished' = out.pub

\* MQTT_Neopixel.__init__: write_all((0, 0, 0)), then the three subscribe calls
NeopixelInit ==
    /\ Yielded
    /\ current_colors = <<>>
    /\ LET out == MQTT_Neopixel_write_all(Black, StripState) IN
       /\ StripBecomes(out)
       /\ lastStripWrite' = StripWriteRecord("all", Num(0), out, StripState)
    /\ callbacks' = Register(Register(Register(callbacks,
                         StripListTopic, StripListHandler),
                         StripSingleTopic, StripSingleHandler),
                         StripAllTopic, StripAllHandler)
    /\ subReqs' = subReqs \o <<StripListTopic, StripSingleTopic, StripAllTopic>>
    /\ subLog' = subLog \o
          <<[topic |-> StripListTopic, h |-> StripListHandler, done |-> completed],
            [topic |-> StripSingleTopic, h |-> StripSingleHandler, done |-> completed],
            [topic |-> StripAllTopic, h |-> StripAllHandler, done |-> completed]>>
    /\ UNCHANGED <<kind, callback_buffer, arrivals, taskVars, pollVars, servoVars,
                   ledVars, streamVars>>

\* await callback(topic, message) for one of the three strip handlers
StripHandlerReturns ==
    /\ pollPc = "handler"
    /\ callbacks[cur.topic][idx] \in StripHandlers
    /\ LET h == callbacks[cur.topic][idx]
           res == IF h = StripListHandler
                  THEN MQTT_Neopixel_on_write_list_packet(cur.payload, StripState)
                  ELSE IF h = StripSingleHandler
                       THEN MQTT_Neopixel_on_write_single_packet(cur.payload, StripState)
                       ELSE MQTT_Neopixel_on_write_all_packet(cur.payload, StripState) IN
       /\ StripBecomes(res.out)
       /\ lastStripWrite' =
             IF res.wrote
             THEN StripWriteRecord(StripOp(h), res.index, res.out, StripState)
             ELSE lastStripWrite
       /\ AfterHandler(h, res.out.err # "none")
    /\ UNCHANGED <<clientVars, servoVars, ledVars, streamVars>>

\* a local call of a strip write method
StripCall(op, i, out) ==
    /\ Yielded
    /\ current_colors # <<>>
    /\ Len(stripPublished) <= MaxPubs
    /\ StripBecomes(out)
    /\ lastStripWrite' = StripWriteRecord(op, i, out, StripState)
    /\ UNCHANGED <<kind, clientVars, taskVars, pollVars, servoVars, ledVars, streamVars>>

WriteList(colors) ==
    StripCall("list", Num(0), MQTT_Neopixel_write_list(colors, StripState))

WriteSingle(i, color) ==
    StripCall("single", Num(i), MQTT_Neopixel_write_single(Num(i), color, StripState))

WriteAll(color) ==
    StripCall("all", Num(0), MQTT_Neopixel_write_all(color, StripState))

----------------------------------------------------------------------------
(* AsyncTCP_ServoMotor and TCP_ServoMotor_Master: the debug servo protocol *)

\* the fractions with a row in the table of Pack, and any other float
Floats == {-5, 0, 5, 10, 15}
OtherFloat == 99

\* struct.pack("f", value): the four bytes of the IEEE-754 single (little-endian) of
\* 0.0, 0.5, 1.0, 1.5, -0.5
Pack(v) ==
    IF v = 0 THEN <<0, 0, 0, 0>>
    ELSE IF v = 5 THEN <<0, 0, 0, 63>>
    ELSE IF v = 10 THEN <<0, 0, 128, 63>>
    ELSE IF v = 15 THEN <<0, 0, 192, 63>>
    ELSE <<0, 0, 0, 191>>

\* struct.unpack("f", data)[0] for four bytes
Unpack(data) ==
    IF \E v \in Floats : Pack(v) = data
    THEN CHOOSE v \in Floats : Pack(v) = data
    ELSE OtherFloat

\* reader.read(n): up to n of the bytes received (none once the peer has closed)
ReadUpTo(n, buf) == SubSeq(buf, 1, IF Len(buf) < n THEN Len(buf) ELSE n)
Rest(n, buf) == SubSeq(buf, (IF Len(buf) < n THEN Len(buf) ELSE n) + 1, Len(buf))

\* AsyncTCP_ServoMotor.on_write_command, given the bytes of reader.read(4)
AsyncTCP_ServoMotor_on_write_command(data, cv) ==
    IF Len(data) # 4
    THEN [err |-> "struct.error", value |-> cv, commanded |-> OtherFloat]
    ELSE IF ServoMotor_write_fraction(Unpack(data)) # "none"
         THEN [err |-> ServoMotor_write_fraction(Unpack(data)), value |-> cv,
               commanded |-> Unpack(data)]
         ELSE [err |-> "none", value |-> Unpack(data), commanded |-> Unpack(data)]

\* AsyncTCP_ServoMotor.start()
TcpStart ==
    /\ tcpServer = "None"
    /\ tcpServer' = "Server"
    /\ UNCHANGED <<busVars, audioVars, tcp_current_value, conn, tcpLog>>

\* a client connects (TCP_ServoMotor_Master.__init__); the server of
\* asyncio.start_server creates a task running handle_connection for it, which runs
\* up to its first `await reader.read(1)`
TcpConnect(c) ==
    /\ tcpServer = "Server"
    /\ conn[c].pc = "none"
    /\ conn[c].client = "none"
    /\ conn' = [conn EXCEPT ![c].pc = "cmd", ![c].client = "idle"]
    /\ UNCHANGED <<busVars, audioVars, tcpServer, tcp_current_value, tcpLog>>

\* the number of commands the clients have sent
RECURSIVE SentUpTo(_)
SentUpTo(c) == IF c = 0 THEN 0 ELSE conn[c].sent + SentUpTo(c - 1)
TotalSent == SentUpTo(MaxConns)

\* the client sends bytes
TcpSend(c, bytes, client, n) ==
    /\ conn' = [conn EXCEPT ![c].rbuf = @ \o bytes, ![c].client = client,
                            ![c].sent = @ + n]
    /\ UNCHANGED <<busVars, audioVars, tcpServer, tcp_current_value, tcpLog>>

\* TCP_ServoMotor_Master.read: sock.send(struct.pack("B", 0))
MasterRead(c) ==
    /\ conn[c].client = "idle"
    /\ TotalSent < MaxCmds
    /\ TcpSend(c, <<ReadCmd>>, "idle", 1)

\* TCP_ServoMotor_Master.write: sock.send(struct.pack("B", 1))
MasterWrite(c) ==
    /\ conn[c].client = "idle"
    /\ TotalSent < MaxCmds
    /\ TcpSend(c, <<WriteCmd>>, "value", 1)

\* TCP_ServoMotor_Master.write: sock.send(struct.pack("f", value))
MasterValue(c, v) ==
    /\ conn[c].client = "value"
    /\ TcpSend(c, Pack(v), "idle", 0)

\* a peer other than TCP_ServoMotor_Master sends a byte that is no command
PeerSendsOther(c) ==
    /\ conn[c].client = "idle"
    /\ TotalSent < MaxCmds
    /\ TcpSend(c, <<OtherCmd>>, "idle", 1)

\* TCP_ServoMotor_Master.close
MasterClose(c) ==
    /\ conn[c].client = "idle"
    /\ conn' = [conn EXCEPT ![c].eof = TRUE, ![c].client = "closed"]
    /\ UNCHANGED <<busVars, audioVars, tcpServer, tcp_current_value, tcpLog>>

\* mutant: an unknown command ends the session
UnknownEndsSession(cmd) == IF cmd = WriteCmd THEN "arg" ELSE "failed"

\* where handle_connection goes for a command other than Read: into
\* on_write_command, or (after the print of the else branch) back to the read
AfterCommand(cmd) == IF cmd = WriteCmd THEN "arg" ELSE "cmd"

\* handle_connection: `cmd_bytes = await reader.read(1)` returns, the command is
\* dispatched; an empty cmd_bytes (the peer has closed) is not None, and
\* struct.unpack("B", b"") raises struct.error
ReadCommand(c) ==
    /\ conn[c].pc = "cmd"
    /\ conn[c].rbuf # <<>> \/ conn[c].eof
    /\ IF conn[c].rbuf = <<>>
       THEN /\ conn' = [conn EXCEPT ![c].pc = "failed"]
            /\ UNCHANGED tcpLog
       ELSE LET cmd == Head(conn[c].rbuf) IN
            IF cmd = ReadCmd
            THEN /\ conn' = [conn EXCEPT ![c].rbuf = Tail(@),
                                         ![c].out = @ \o Pack(tcp_current_value)]
                 /\ tcpLog' = Append(tcpLog,
                        [conn |-> c, op |-> "read", value |-> tcp_current_value,
                         reply |-> Pack(tcp_current_value), err |-> "none"])
            ELSE /\ conn' = [conn EXCEPT ![c].rbuf = Tail(@), ![c].pc = AfterCommand(cmd)]
                 /\ tcpLog' = IF cmd = WriteCmd
                              THEN tcpLog
                              ELSE Append(tcpLog,
                                       [conn |-> c, op |-> "unknown",
                                        value |-> tcp_current_value, reply |-> <<>>,
                                        err |-> "none"])
    /\ UNCHANGED <<busVars, audioVars, tcpServer, tcp_current_value>>

\* on_write_command: `await reader.read(4)` returns
ReadValue(c) ==
    /\ conn[c].pc = "arg"
    /\ conn[c].rbuf # <<>> \/ conn[c].eof
    /\ LET out == AsyncTCP_ServoMotor_on_write_command(ReadUpTo(4, conn[c].rbuf),
                                                       tcp_current_value) IN
       /\ tcp_current_value' = out.value
       /\ conn' = [conn EXCEPT ![c].rbuf = Rest(4, @),
                               ![c].pc = IF out.err = "none" THEN "cmd" ELSE "failed"]
       /\ tcpLog' = IF out.commanded = OtherFloat
                    THEN tcpLog
                    ELSE Append(tcpLog, [conn |-> c, op |-> "write",
                                         value |-> out.commanded, reply |-> <<>>,
                                         err |-> out.err])
    /\ UNCHANGED <<busVars, audioVars, tcpServer>>

----------------------------------------------------------------------------
(* AsyncTCP_AudioPlayer and AudioStreamer: the audio protocol *)

Min(a, b) == IF a < b THEN a ELSE b

\* the bits per sample machine.I2S accepts
I2S_supports(bits) == bits \in {16, 32}

\* packet_size * (bits_per_sample // 8) * num_channels
PacketBytes(hdr) == hdr.packet_size * (hdr.bits \div 8) * hdr.channels

\* the bytes of struct.pack(f"{n}h", ...): two per frame
FrameBytes(n) == 2 * n

\* mutant: a loop test that admits one more packet
LoopContinuesInclusive(samples_read, num_samples) == samples_read <= num_samples

\* `while samples_read < num_samples`
LoopContinues(samples_read, num_samples) == samples_read < num_samples

Event(ev, n, got) == [ev |-> ev, n |-> n, got |-> got]

\* AsyncTCP_AudioPlayer.start()
AudioStart ==
    /\ audioServer = "None"
    /\ audioServer' = "Server"
    /\ UNCHANGED <<busVars, tcpVars, sess>>

\* AudioStreamer.start: sock.connect, sock.send(header); the server of
\* asyncio.start_server creates a task running handle_connection for the
\* connection, which runs up to `await reader.read(20)`
AudioConnect(c, audio) ==
    /\ audioServer = "Server"
    /\ sess[c].pc = "none"
    /\ sess[c].client = "none"
    /\ sess' = [sess EXCEPT ![c].pc = "header", ![c].hdr = audio,
                            ![c].rbuf = HeaderSize, ![c].client = "recv"]
    /\ UNCHANGED <<busVars, tcpVars, audioServer>>

\* handle_connection: reader.read(20) returns; the header is unpacked, the I2S sink
\* is constructed, the header is acknowledged and the packet loop is entered
AudioReadHeader(c) ==
    /\ sess[c].pc = "header"
    /\ sess[c].rbuf > 0 \/ sess[c].eof
    /\ LET got == Min(HeaderSize, sess[c].rbuf) IN
       IF got # HeaderSize \/ ~I2S_supports(sess[c].hdr.bits)
       THEN sess' = [sess EXCEPT ![c].pc = "failed", ![c].rbuf = @ - got]
       ELSE sess' = [sess EXCEPT
                ![c].rbuf = @ - got,
                ![c].sinkOpen = TRUE,
                ![c].acks = @ + 1,
                ![c].log = Append(@, Event("header ack", 0, 0)),
                ![c].samples_read = 0,
                ![c].pc = IF LoopContinues(0, sess[c].hdr.frames)
                          THEN "data" ELSE "done"]
    /\ UNCHANGED <<busVars, tcpVars, audioServer>>

\* the packet loop: reader.read(...) returns `got` bytes, samples_read +=
\* packet_size, the ack is written
AudioRead(c, got) ==
    /\ sess[c].pc = "data"
    /\ sess[c].rbuf > 0 \/ sess[c].eof
    /\ sess' = [sess EXCEPT
                ![c].rbuf = @ - got,
                ![c].samples_read = @ + sess[c].hdr.packet_size,
                ![c].acks = @ + 1,
                ![c].log = @ \o <<Event("read", PacketBytes(sess[c].hdr), got),
                                   Event("ack", 0, 0)>>,
                ![c].packet = got,
                ![c].pc = "write"]
    /\ UNCHANGED <<busVars, tcpVars, audioServer>>

\* reader.read(n) when everything the sender has sent has arrived: it returns up
\* to n of those bytes
AudioReadPacket(c) == AudioRead(c, Min(PacketBytes(sess[c].hdr), sess[c].rbuf))

\* reader.read(n) when only a part of the packet has arrived: it returns that part
AudioReadPart(c) ==
    \E got \in 1..(Min(PacketBytes(sess[c].hdr), sess[c].rbuf) - 1) : AudioRead(c, got)

\* the packet loop: i2s.write(audio_packet), then the loop test; when the loop ends
\* handle_connection returns
AudioSinkWrite(c) ==
    /\ sess[c].pc = "write"
    /\ sess' = [sess EXCEPT
                ![c].sink = @ + sess[c].packet,
                ![c].log = Append(@, Event("sink", 0, sess[c].packet)),
                ![c].packet = 0,
                ![c].pc = IF LoopContinues(sess[c].samples_read, sess[c].hdr.frames)
                          THEN "data" ELSE "done"]
    /\ UNCHANGED <<busVars, tcpVars, audioServer>>

\* mutant: a sender that does not wait for the ack
RecvSkipped(acks) == TRUE

\* sock.recv(1) blocks until a byte has arrived
RecvReturns(acks) == acks > 0

\* AudioStreamer.start: sock.recv(1) returns the ack of the header or of the last
\* packet; i advances, and the next packet of min(packet_size, length - i) frames
\* is sent, if there is one
StreamerRecvAck(c) ==
    /\ sess[c].client = "recv"
    /\ RecvReturns(sess[c].acks)
    /\ LET i == sess[c].i + sess[c].sending
           n == Min(sess[c].hdr.packet_size, sess[c].hdr.frames - i) IN
       IF i < sess[c].hdr.frames
       THEN sess' = [sess EXCEPT ![c].acks = @ - 1, ![c].i = i, ![c].sending = n,
                                 ![c].rbuf = @ + FrameBytes(n)]
       ELSE sess' = [sess EXCEPT ![c].acks = @ - 1, ![c].i = i, ![c].sending = 0,
                                 ![c].client = "done"]
    /\ UNCHANGED <<busVars, tcpVars, audioServer>>

\* AudioStreamer.start returns: its socket is closed when it is collected
StreamerClose(c) ==
    /\ sess[c].client = "done"
    /\ sess' = [sess EXCEPT ![c].client = "closed", ![c].eof = TRUE]
    /\ UNCHANGED <<busVars, tcpVars, audioServer>>

----------------------------------------------------------------------------
(* start(interval, ignore_errors) and the poll_loop task *)

\* mutant: a start that does not look at loop_task
StartsAnyway(task) == FALSE

\* `if self.loop_task`
AlreadyRunning(task) == task # "None"

Start(iv, ign) ==
    /\ Yielded
    /\ starts < MaxStarts
    /\ starts' = starts + 1
    /\ IF AlreadyRunning(loop_task)
       THEN /\ startResult' = "RuntimeError"
            /\ UNCHANGED <<loop_task, taskPc, taskIgnore, interval, tasksCreated>>
       ELSE /\ startResult' = "ok"
            /\ loop_task' = "Task"
            /\ taskPc' = "ready"
            /\ taskIgnore' = ign
            /\ interval' = iv
            /\ tasksCreated' = tasksCreated + 1
    /\ UNCHANGED <<kind, clientVars, taskSleep, pollVars, servoVars, deviceVars>>

\* poll_loop: await self.poll(ignore_errors)
TaskPoll ==
    /\ taskPc = "ready"
    /\ BeginPoll("task", taskIgnore)
    /\ taskPc' = "poll"
    /\ UNCHANGED <<kind, clientVars, loop_task, taskIgnore, interval, taskSleep,
                   tasksCreated, starts, startResult, servoVars, deviceVars>>

\* poll_loop: await asyncio.sleep(interval) is over
TaskWake ==
    /\ taskPc = "sleep"
    /\ taskPc' = "ready"
    /\ taskSleep' = 0
    /\ UNCHANGED <<kind, clientVars, loop_task, taskIgnore, interval, tasksCreated,
                   starts, startResult, pollVars, servoVars, deviceVars>>

----------------------------------------------------------------------------
(* The specification *)

\* the registry after the constructors of the device channels have subscribed their
\* handlers, in construction order
Constructed(subs) ==
    /\ callbacks = [t \in {subs[k].topic : k \in 1..Len(subs)} |->
                       LET own == SelectSeq(subs, LAMBDA r : r.topic = t) IN
                       [k \in 1..Len(own) |-> own[k].h]]
    /\ subLog = [k \in 1..Len(subs) |->
                    [topic |-> subs[k].topic, h |-> subs[k].h, done |-> 0]]
    /\ subReqs = [k \in 1..Len(subs) |-> subs[k].topic]

\* everything but the registry
InitState ==
    /\ kind \in Kinds
    /\ callback_buffer = <<>>
    /\ arrivals = <<>>
    /\ loop_task = "None"
    /\ taskPc = "none"
    /\ taskIgnore = TRUE
    /\ interval = 0
    /\ taskSleep = 0
    /\ tasksCreated = 0
    /\ starts = 0
    /\ startResult = "none"
    /\ pollPc = "idle"
    /\ pollLog = <<>>
    /\ cur = NoMsg
    /\ idx = 0
    /\ completed = 0
    /\ calls = <<>>
    /\ current_value = 0
    /\ published = <<>>
    /\ lastWrite = NoWrite
    /\ current_color = Off
    /\ rgb = <<0, 0, 0>>
    /\ ledPublished = <<>>
    /\ lastLedWrite = NoLedWrite
    /\ current_colors = <<>>
    /\ np = [i \in 1..StripLength |-> Black]
    /\ shown = <<>>
    /\ stripPublished = <<>>
    /\ lastStripWrite = NoStripWrite
    /\ tcpServer = "None"
    /\ tcp_current_value = 0
    /\ conn = [c \in Conns |-> NoConn]
    /\ tcpLog = <<>>
    /\ audioServer = "None"
    /\ sess = [c \in Conns |-> NoSession]

\* the hand servo channel is constructed
Init ==
    /\ Constructed(<<[topic |-> ServoWriteTopic, h |-> ServoHandler]>>)
    /\ InitState

\* the hand servo channel and the LED channel are constructed
InitLed ==
    /\ Constructed(<<[topic |-> ServoWriteTopic, h |-> ServoHandler],
                     [topic |-> LedWriteTopic, h |-> LedHandler]>>)
    /\ InitState

\* the client: subscribe, _on_rx and poll
Next ==
    \/ \E sub \in Subscriptions : Subscribe(sub[1], sub[2])
    \/ \E m \in Inbound : OnRx(m)
    \/ \E ign \in BOOLEAN : CallerPoll(ign)
    \/ CheckMsgNone
    \/ \E m \in Inbound : CheckMsgDeliver(m)
    \/ Drain
    \/ PollWake
    \/ GenericHandlerReturns
    \/ ServoHandlerReturns

Spec == Init /\ [][Next]_vars

\* the client driven by the task of start
NextTask ==
    \/ \E h \in GenericHandlers : Subscribe(GenericTopic, h)
    \/ \E m \in TaskInbound : OnRx(m)
    \/ \E iv \in Intervals, ign \in BOOLEAN : Start(iv, ign)
    \/ TaskPoll
    \/ TaskWake
    \/ CheckMsgNone
    \/ \E m \in TaskInbound : CheckMsgDeliver(m)
    \/ Drain
    \/ PollWake
    \/ GenericHandlerReturns

SpecTask == Init /\ [][NextTask]_vars

\* the servo channel: local writes and writes from the bus
NextServo ==
    \/ \E v \in Fractions : Write(v)
    \/ \E m \in ServoInbound : OnRx(m)
    \/ \E ign \in BOOLEAN : CallerPoll(ign)
    \/ CheckMsgNone
    \/ \E m \in ServoInbound : CheckMsgDeliver(m)
    \/ Drain
    \/ PollWake
    \/ ServoHandlerReturns

SpecServo == Init /\ [][NextServo]_vars

\* the LED channel: local writes and writes from the bus
NextLed ==
    \/ \E c \in LedColors : LedWrite(c)
    \/ \E m \in LedInbound : OnRx(m)
    \/ \E ign \in BOOLEAN : CallerPoll(ign)
    \/ CheckMsgNone
    \/ \E m \in LedInbound : CheckMsgDeliver(m)
    \/ Drain
    \/ PollWake
    \/ LedHandlerReturns

SpecLed == InitLed /\ [][NextLed]_vars

\* the LED channel written with channels above 255 and with partial payloads
NextLedFields ==
    \/ \E c \in LedFieldColors : LedWrite(c)
    \/ \E m \in LedFieldInbound : OnRx(m)
    \/ \E ign \in BOOLEAN : CallerPoll(ign)
    \/ CheckMsgNone
    \/ \E m \in LedFieldInbound : CheckMsgDeliver(m)
    \/ Drain
    \/ PollWake
    \/ LedHandlerReturns

SpecLedFields == InitLed /\ [][NextLedFields]_vars

\* the strip channel: its construction and local writes
NextStrip ==
    \/ NeopixelInit
    \/ \E colors \in StripLists : WriteList(colors)
    \/ \E i \in StripIndexes, c \in StripColors : WriteSingle(i, c)
    \/ \E c \in StripColors : WriteAll(c)

SpecStrip == Init /\ [][NextStrip]_vars

\* the strip channel: its construction and writes from the bus
NextStripBus ==
    \/ NeopixelInit
    \/ \E m \in StripInbound : OnRx(m)
    \/ \E ign \in BOOLEAN : CallerPoll(ign)
    \/ CheckMsgNone
    \/ \E m \in StripInbound : CheckMsgDeliver(m)
    \/ Drain
    \/ PollWake
    \/ StripHandlerReturns

SpecStripBus == Init /\ [][NextStripBus]_vars

\* the debug servo listener and its clients
NextTcp ==
    \/ TcpStart
    \/ \E c \in Conns : TcpConnect(c)
    \/ \E c \in Conns : MasterRead(c)
    \/ \E c \in Conns : MasterWrite(c)
    \/ \E c \in Conns, v \in TcpFractions : MasterValue(c, v)
    \/ \E c \in Conns : PeerSendsOther(c)
    \/ \E c \in Conns : MasterClose(c)
    \/ \E c \in Conns : ReadCommand(c)
    \/ \E c \in Conns : ReadValue(c)

SpecTcp == Init /\ [][NextTcp]_vars

\* the audio listener and its clients
NextAudio ==
    \/ AudioStart
    \/ \E c \in Conns, a \in Audios : AudioConnect(c, a)
    \/ \E c \in Conns : AudioReadHeader(c)
    \/ \E c \in Conns : AudioReadPacket(c)
    \/ \E c \in Conns : AudioSinkWrite(c)
    \/ \E c \in Conns : StreamerRecvAck(c)
    \/ \E c \in Conns : StreamerClose(c)

SpecAudio == Init /\ [][NextAudio]_vars

\* the audio listener and its clients over a stream that delivers a packet in parts
NextAudioParts ==
    \/ NextAudio
    \/ \E c \in Conns : AudioReadPart(c)

SpecAudioParts == Init /\ [][NextAudioParts]_vars

\* one servo behind both of its channels: writes from the bus through
\* MQTT_ServoMotor, commands over the debug servo listener
NextShared ==
    \/ \E m \in ServoInbound : OnRx(m)
    \/ \E ign \in BOOLEAN : CallerPoll(ign)
    \/ CheckMsgNone
    \/ \E m \in ServoInbound : CheckMsgDeliver(m)
    \/ Drain
    \/ PollWake
    \/ ServoHandlerReturns
    \/ TcpStart
    \/ \E c \in Conns : TcpConnect(c)
    \/ \E c \in Conns : MasterRead(c)
    \/ \E c \in Conns : MasterWrite(c)
    \/ \E c \in Conns, v \in TcpFractions : MasterValue(c, v)
    \/ \E c \in Conns : ReadCommand(c)
    \/ \E c \in Conns : ReadValue(c)

SpecShared == Init /\ [][NextShared]_vars

----------------------------------------------------------------------------
(* Observations on the histories *)

IsPrefix(s, t) == Len(s) <= Len(t) /\ SubSeq(t, 1, Len(s)) = s

\* the handler invocations made for the message with arrival number j, in order
CallsFor(j) == SelectSeq(calls, LAMBDA c : c.msg = j)

HandlersOf(cs) == [k \in 1..Len(cs) |-> cs[k].h]

\* the handlers subscribed to the topic of message j before its handler loop ended, in
\* subscription order
ExpectedHandlers(j) ==
    HandlersOf(SelectSeq(subLog, LAMBDA r : r.topic = arrivals[j].topic /\ r.done < j))

\* the handler loop of message j was left by a propagated exception
Aborted(j) ==
    \E k \in 1..Len(calls) :
        calls[k].msg = j /\ calls[k].raised /\ ~pollLog[calls[k].poll].ign

BufferIds == {callback_buffer[k].id : k \in 1..Len(callback_buffer)}

----------------------------------------------------------------------------
(* Claims *)

\* C1: dispatch is FIFO by arrival and then by subscription order: the handler calls
\* are, for each enqueued message in enqueue order, the handlers subscribed to its
\* topic in subscription order; all of them once its handler loop has ended (unless
\* an exception left poll), a prefix of them while it runs.
C1_FifoThenSubscriptionOrder ==
    /\ \A k \in 1..(Len(calls) - 1) : calls[k].msg <= calls[k + 1].msg
    /\ \A j \in 1..Len(arrivals) :
          IF j <= completed /\ ~Aborted(j)
          THEN HandlersOf(CallsFor(j)) = ExpectedHandlers(j)
          ELSE IsPrefix(HandlersOf(CallsFor(j)), ExpectedHandlers(j))

\* the example of the specification: M1 on a topic with handlers [h1, h2], then M2 on
\* another topic, gives h1(M1), h2(M1), then the handler of M2
C1_Witness ==
    /\ Len(calls) = 3
    /\ calls[1].msg = 1 /\ calls[1].h = "h1"
    /\ calls[2].msg = 1 /\ calls[2].h = "h2"
    /\ calls[3].msg = 2 /\ calls[3].h = ServoHandler
    /\ arrivals[1].topic = GenericTopic

C3_RemovedOnceBeforeHandlers ==
    /\ LET n == Len(arrivals) - Len(callback_buffer) IN
       /\ n >= 0
       /\ \A k \in 1..Len(callback_buffer) : callback_buffer[k].id = n + k
       /\ n = completed + (IF pollPc = "handler" THEN 1 ELSE 0)
    /\ cur.id \notin BufferIds
    /\ \A k \in 1..Len(calls) : calls[k].msg \notin BufferIds
    /\ \A k1, k2 \in 1..Len(calls) :
          (calls[k1].msg = calls[k2].msg /\ calls[k1].pos = calls[k2].pos) => k1 = k2

\* a handler is running for a popped message while a later message waits
C3_Witness ==
    /\ pollPc = "handler"
    /\ cur.id = 1
    /\ Len(calls) = 1
    /\ callback_buffer # <<>>

\* C4: with ignore_errors true a handler exception does not leave poll: the other
\* handlers of the message are still called, and the poll does not end by raising.
C4_IgnoredErrorsDoNotStop ==
    /\ \A p \in 1..Len(pollLog) : pollLog[p].ign => pollLog[p].result # "raised"
    /\ \A j \in 1..Len(arrivals) :
          (j <= completed /\ \A k \in 1..Len(calls) : calls[k].msg = j => pollLog[calls[k].poll].ign)
              => Len(CallsFor(j)) = Len(ExpectedHandlers(j))

\* a malformed payload on the servo write topic made _on_write_packet raise; the next
\* handler of that message and the next message were still dispatched by that poll
C4_Witness ==
    /\ Len(calls) = 3
    /\ pollLog[1].ign
    /\ calls[1].h = ServoHandler /\ calls[1].raised /\ calls[1].msg = 1
    /\ calls[2].msg = 1
    /\ calls[3].msg = 2
    /\ \A k \in 1..3 : calls[k].poll = 1

\* C5: with ignore_errors false the first handler exception leaves poll: poll raises to
\* its caller and calls no further handler.
C5_FirstErrorAborts ==
    \A k \in 1..Len(calls) :
        (calls[k].raised /\ ~pollLog[calls[k].poll].ign) =>
            /\ pollLog[calls[k].poll].result = "raised"
            /\ \A k2 \in (k + 1)..Len(calls) : calls[k2].poll # calls[k].poll

\* a poll raised while another handler of the message and another message were left
C5_Witness ==
    /\ Len(calls) = 1
    /\ calls[1].raised
    /\ pollLog[1].result = "raised"
    /\ Len(callbacks[arrivals[1].topic]) = 2
    /\ callback_buffer # <<>>

\* C6: _on_rx only enqueues: a step of _on_rx (from the transport, or inside
\* check_msg) invokes no handler, leaves the registry and the devices alone, and at
\* most appends one entry to the buffer; handlers are invoked from poll only.
C6_OnRxOnlyEnqueues ==
    [][ /\ (\E m \in Inbound \cup ServoInbound : OnRx(m) \/ CheckMsgDeliver(m)) =>
            /\ calls' = calls
            /\ callbacks' = callbacks
            /\ current_value' = current_value
            /\ \/ callback_buffer' = callback_buffer
               \/ /\ Len(callback_buffer') = Len(callback_buffer) + 1
                  /\ SubSeq(callback_buffer', 1, Len(callback_buffer)) = callback_buffer
        /\ calls' # calls => pollPc = "handler" ]_vars

\* _on_rx was called while the first handler of message 1 was running: the message
\* was enqueued and no handler was invoked for it
C6_Witness ==
    /\ pollPc = "handler"
    /\ calls = <<>>
    /\ Len(arrivals) = 2
    /\ arrivals[2].during = 1
    /\ Len(callback_buffer) = 1
    /\ callback_buffer[1].id = 2

\* C7: every subscribe call appends its handler to the end of the topic's list and
\* sends one subscribe request; nothing else changes the registry: each list is the
\* handlers of the subscribe calls for its topic, in call order.
C7_SubscribeAppends ==
    /\ DOMAIN callbacks = {subLog[k].topic : k \in 1..Len(subLog)}
    /\ \A t \in DOMAIN callbacks :
          callbacks[t] = HandlersOf(SelectSeq(subLog, LAMBDA r : r.topic = t))
    /\ subReqs = [k \in 1..Len(subLog) |-> subLog[k].topic]

\* the same handler subscribed twice to one topic ran twice for one message
C7_Witness ==
    /\ GenericTopic \in DOMAIN callbacks
    /\ callbacks[GenericTopic] = <<"h1", "h1">>
    /\ Len(subReqs) = 3
    /\ Len(calls) = 2
    /\ calls[1].msg = 1 /\ calls[2].msg = 1
    /\ calls[1].h = "h1" /\ calls[2].h = "h1"

\* C8: start creates at most one poll task, a second start raises and creates none,
\* and the task alternates poll and a suspension of `interval`: whenever it is in a
\* timed suspension, that is the sleep of `interval` after a finished poll.
C8_OneRepeatingTask ==
    /\ tasksCreated <= 1
    /\ starts >= 2 => startResult = "RuntimeError"
    /\ taskSleep # 0 => (taskPc = "sleep" /\ taskSleep = interval)

\* C9: after write(f) with f in [0, 1], read() returns f.
C9_WriteThenRead ==
    (lastWrite.called /\ lastWrite.value \in 0..10) => MQTT_ServoMotor_read = lastWrite.value

\* C10: write(f) with f outside [0, 1] fails with a validation error, leaves the
\* cached value alone and publishes nothing.
C10_InvalidWriteRejected ==
    (lastWrite.called /\ lastWrite.value \notin 0..10) =>
        /\ lastWrite.err = "ValueError"
        /\ MQTT_ServoMotor_read = lastWrite.before
        /\ Len(published) = lastWrite.pubBefore

\* the servo half of C11: a write of a fraction in [0, 1] published once, with the
\* new value, if that value differed from the cached one, and nothing otherwise
ServoPublishIffChanged ==
    (lastWrite.called /\ lastWrite.value \in 0..10) =>
        IF lastWrite.value # lastWrite.before
        THEN /\ Len(published) = lastWrite.pubBefore + 1
             /\ published[Len(published)] =
                    [topic |-> ServoReadTopic, percent |-> lastWrite.value]
        ELSE Len(published) = lastWrite.pubBefore

\* the LED half of C11: a write of a color (three numbers) published once, with the
\* new color, if that color differed from the cached one, and nothing otherwise
LedPublishIffChanged ==
    (lastLedWrite.called /\ \A k \in 1..3 : lastLedWrite.color[k].num) =>
        IF lastLedWrite.color # lastLedWrite.before
        THEN /\ Len(ledPublished) = lastLedWrite.pubBefore + 1
             /\ ledPublished[Len(ledPublished)] =
                    [topic |-> LedReadTopic, color |-> lastLedWrite.color]
        ELSE Len(ledPublished) = lastLedWrite.pubBefore

\* a LED color was written twice in a row: one publish
LedRepeatedWrite ==
    /\ lastLedWrite.called
    /\ lastLedWrite.color = LedRed
    /\ lastLedWrite.before = LedRed
    /\ Len(ledPublished) = 1

\* C11: for the servo and the LED channel a write publishes to <root>/read if and
\* only if the written value differs from the cached one: once, with the new value,
\* when it differs, and not at all when it is the same.
C11_PublishIffChanged == ServoPublishIffChanged /\ LedPublishIffChanged

DeviceState ==
    <<current_value, published, current_color, rgb, ledPublished, current_colors, np,
      shown, stripPublished>>

\* a JSON color that is not a triple of numbers
BadColor(c) == ~c.arr \/ Len(c.items) # 3 \/ \E k \in 1..Len(c.items) : ~c.items[k].num

\* a payload that is not of the form its write topic expects
MalformedPayload(m) ==
    IF m.topic = ServoWriteTopic
    THEN ~m.payload.json \/ ~m.payload.has
    ELSE IF m.topic = LedWriteTopic
    THEN \/ m.payload.shape # "object"
         \/ \E f \in DOMAIN m.payload.obj : ~m.payload.obj[f].num
    ELSE IF m.topic = StripListTopic
    THEN \/ m.payload.shape # "array"
         \/ Len(m.payload.list) # StripLength
         \/ \E k \in 1..Len(m.payload.list) : BadColor(m.payload.list[k])
    ELSE IF m.topic \in {StripSingleTopic, StripAllTopic}
    THEN \/ m.payload.shape # "object"
         \/ (m.topic = StripSingleTopic /\ "index" \notin DOMAIN m.payload.obj)
         \/ ("color" \in DOMAIN m.payload.obj /\ BadColor(m.payload.obj["color"]))
    ELSE FALSE

\* C14: a handler called for a malformed payload on a device write topic leaves the
\* cached state and the device as they were and publishes nothing.
C14_MalformedDropped ==
    [][ (pollPc = "handler" /\ calls' # calls /\ MalformedPayload(cur))
            => DeviceState' = DeviceState ]_vars

\* the value of the most recent Write command the servo listener read before its
\* k-th command, 0.0 if there was none
LastWritten(k) ==
    LET ws == {j \in 1..(k - 1) : tcpLog[j].op = "write"} IN
    IF ws = {} THEN 0 ELSE tcpLog[CHOOSE j \in ws : \A i \in ws : i <= j].value

\* C15: a Read command is answered with the four bytes that encode the value of the
\* most recent Write command (0.0 if there was none), and well-formed commands do not
\* end the session: it ends only after the peer has closed.
C15_ReadReturnsLastWrite ==
    /\ \A k \in 1..Len(tcpLog) :
          tcpLog[k].op = "read" => tcpLog[k].reply = Pack(LastWritten(k))
    /\ \A c \in Conns : conn[c].pc = "failed" => conn[c].eof

\* the replies alone: every Read reply encodes the most recent Write
ReadReplies ==
    \A k \in 1..Len(tcpLog) :
        tcpLog[k].op = "read" => tcpLog[k].reply = Pack(LastWritten(k))

\* the number of events of one kind in the history of a session
Count(log, ev) == Len(SelectSeq(log, LAMBDA e : e.ev = ev))

\* the bytes the first k events of a history read from the connection
RECURSIVE BytesRead(_, _)
BytesRead(log, k) ==
    IF k = 0 THEN 0
    ELSE BytesRead(log, k - 1) + (IF log[k].ev = "read" THEN log[k].got ELSE 0)

\* ceil(total / packet)
Ceil(total, packet) == (total + packet - 1) \div packet

\* the bytes of n samples of a stream
SampleBytes(hdr, n) == n * (hdr.bits \div 8) * hdr.channels

\* the header was accepted
PastHandshake(c) == sess[c].pc \in {"data", "write", "done"}

\* C16: a session sends one ack for the header and one ack for every data packet it
\* reads: at most ceil(total_samples / packet_size) data acks at any time, exactly that
\* many once the loop has ended, and none before the header was accepted.
C16_AcksPerPacket ==
    \A c \in Conns :
        LET log == sess[c].log
            hdr == sess[c].hdr IN
        /\ Count(log, "header ack") = (IF PastHandshake(c) THEN 1 ELSE 0)
        /\ Count(log, "ack") = Count(log, "read")
        /\ Count(log, "ack") <= Ceil(hdr.frames, hdr.packet_size)
        /\ sess[c].pc = "done" => Count(log, "ack") = Ceil(hdr.frames, hdr.packet_size)
        /\ ~PastHandshake(c) => Count(log, "ack") = 0

\* total_samples = 3 with packet_size = 1 (1500 and 500 of the specification, in
\* units of 500 samples): the session has ended after three data acks
C16_Witness ==
    \E c \in Conns :
        /\ sess[c].hdr = Audio(3, 1, 16)
        /\ sess[c].pc = "done"
        /\ Count(sess[c].log, "ack") = 3
        /\ Count(sess[c].log, "header ack") = 1
        /\ sess[c].client = "closed"

\* C17: every read asks for the bytes of min(packet_size, remaining samples), the
\* counter samples_read is the number of samples read, and a session that has ended
\* has passed exactly total_samples samples to the sink.
C17_ExactAccounting ==
    \A c \in Conns :
        LET log == sess[c].log
            hdr == sess[c].hdr IN
        /\ \A k \in 1..Len(log) :
              log[k].ev = "read" =>
                  log[k].n = Min(PacketBytes(hdr),
                                 SampleBytes(hdr, hdr.frames) - BytesRead(log, k - 1))
        /\ PastHandshake(c) =>
              SampleBytes(hdr, sess[c].samples_read) = BytesRead(log, Len(log))
        /\ sess[c].pc = "done" => sess[c].sink = SampleBytes(hdr, hdr.frames)

\* the sink of a session that has ended received exactly the declared samples
SinkReceivesTotal ==
    \A c \in Conns :
        sess[c].pc = "done" => sess[c].sink = SampleBytes(sess[c].hdr, sess[c].hdr.frames)

\* C18: the ack of packet k is not sent before packet k has been written to the
\* sink: a session has never sent more data acks than it has written packets.
C18_SinkBeforeAck ==
    \A c \in Conns : Count(sess[c].log, "ack") <= Count(sess[c].log, "sink")

\* C19: when the packet loop has ended the session is torn down: its sink is closed.
C19_SessionTornDown ==
    \A c \in Conns : sess[c].pc = "done" => ~sess[c].sinkOpen

\* the sessions a listener is serving
ServoSessions == {c \in Conns : conn[c].pc \in {"cmd", "arg"}}
AudioSessions == {c \in Conns : sess[c].pc \in {"header", "data", "write"}}

\* the debug servo listener alone serves at most one connection at a time
OneServoSession == Cardinality(ServoSessions) <= 1

\* C20: a listener serves one connection at a time: no two sessions of the debug
\* servo listener, and no two sessions of the audio listener, are active together.
C20_OneSessionPerListener ==
    Cardinality(ServoSessions) <= 1 /\ Cardinality(AudioSessions) <= 1

\* what the sender of a session has put on the connection (the header and the
\* packets), and the acks it has received
SentByStreamer(c) ==
    IF sess[c].client = "none" THEN 0
    ELSE 1 + Ceil(sess[c].i + sess[c].sending, sess[c].hdr.packet_size)
AcksReceived(c) ==
    Count(sess[c].log, "header ack") + Count(sess[c].log, "ack") - sess[c].acks

----------------------------------------------------------------------------
(* The servo behind the bus and the debug listener *)

\* the values of the Write commands the listener has read, in order
TcpWrites == SelectSeq(tcpLog, LAMBDA r : r.op = "write")

\* the value last written through each path
LastWrites ==
    (IF lastWrite.called THEN {lastWrite.value} ELSE {})
        \cup (IF TcpWrites # <<>> THEN {TcpWrites[Len(TcpWrites)].value} ELSE {})

\* C21: bus writes and TCP Write commands to one servo share one cached value and the
\* last write wins: once the servo has been written with fractions of 0.0 to 1.0, a
\* read through the channel and a Read command return the same value, and it is
\* the value of the last write of one of the two paths.
C21_LastWriteWins ==
    (LastWrites # {} /\ \A v \in LastWrites : v \in 0..10)
        => /\ MQTT_ServoMotor_read = Unpack(Pack(tcp_current_value))
           /\ MQTT_ServoMotor_read \in LastWrites

----------------------------------------------------------------------------
(* The debug servo protocol: invalid values, close, unknown commands *)

\* the commands the listener has read on connection c
CommandsOf(c) == SelectSeq(tcpLog, LAMBDA r : r.conn = c)

\* C23: a Write whose value is outside 0.0 to 1.0 is dropped: the cache keeps a
\* fraction of 0.0 to 1.0, no Write is answered with a byte, and the Write does not
\* end the session (no exception leaves the handler).
C23_InvalidWriteDropped ==
    /\ tcp_current_value \in 0..10
    /\ \A k \in 1..Len(tcpLog) :
          tcpLog[k].op = "write" =>
              /\ tcpLog[k].reply = <<>>
              /\ tcpLog[k].value \notin 0..10 => tcpLog[k].err = "none"

\* no Write command is answered, and the cache is a fraction of 0.0 to 1.0
WriteSendsNothing ==
    /\ tcp_current_value \in 0..10
    /\ \A k \in 1..Len(tcpLog) : tcpLog[k].op = "write" => tcpLog[k].reply = <<>>

\* C24: when the peer closes the connection the command loop ends normally: a
\* session that was sent no Write command has not ended with an error.
C24_CloseEndsSession ==
    \A c \in Conns :
        (conn[c].eof /\ \A k \in 1..Len(tcpLog) :
                            tcpLog[k].conn = c => tcpLog[k].op # "write")
            => conn[c].pc # "failed"

\* the server step of connection c on a byte that is neither Read nor Write
UnknownCommandStep(c) ==
    /\ conn[c].pc = "cmd"
    /\ conn[c].rbuf # <<>>
    /\ Head(conn[c].rbuf) \notin {ReadCmd, WriteCmd}
    /\ Len(conn'[c].rbuf) < Len(conn[c].rbuf)

\* C25: an unknown command byte is only logged: the step that reads it takes that
\* one byte from the connection, sends nothing, leaves the cached value unchanged
\* and leaves the session awaiting the next command.
C25_UnknownCommandIgnored ==
    [][\A c \in Conns :
          UnknownCommandStep(c) =>
              /\ conn'[c].rbuf = Tail(conn[c].rbuf)
              /\ conn'[c].out = conn[c].out
              /\ conn'[c].pc = "cmd"
              /\ tcp_current_value' = tcp_current_value
              /\ \A d \in Conns \ {c} : conn'[d] = conn[d]]_vars

\* a session has read an unknown command and has then served a Read command
C25_Witness ==
    \E c \in Conns :
        /\ Len(CommandsOf(c)) = 2
        /\ CommandsOf(c)[1].op = "unknown"
        /\ CommandsOf(c)[2].op = "read"
        /\ CommandsOf(c)[2].reply = Pack(0)
        /\ conn[c].out = Pack(0)
        /\ conn[c].pc = "cmd"

----------------------------------------------------------------------------
(* Messages for topics without a handler *)

\* C26: a message for a topic without a registered handler is dropped silently: every
\* entry of the inbound queue, and every message ever enqueued, has a topic that is a
\* key of the registry; handlers run only for enqueued messages and are handlers
\* of their topic; and a poll raises only when one of its handlers raised.
C26_UnregisteredDropped ==
    /\ \A k \in 1..Len(callback_buffer) : callback_buffer[k].topic \in DOMAIN callbacks
    /\ \A j \in 1..Len(arrivals) : arrivals[j].topic \in DOMAIN callbacks
    /\ \A k \in 1..Len(calls) :
          /\ calls[k].msg \in 1..Len(arrivals)
          /\ \E q \in 1..Len(callbacks[arrivals[calls[k].msg].topic]) :
                callbacks[arrivals[calls[k].msg].topic][q] = calls[k].h
    /\ \A q \in 1..Len(pollLog) :
          pollLog[q].result = "raised" =>
              \E k \in 1..Len(calls) : calls[k].poll = q /\ calls[k].raised

\* check_msg() of an AsyncMQTT poll has just delivered a message for a topic nobody
\* has subscribed to (the only way into the drain loop with nothing ever
\* enqueued): the queue is empty and no handler has run
C26_Witness ==
    /\ kind = "umqtt"
    /\ pollPc = "drain"
    /\ GenericTopic \notin DOMAIN callbacks
    /\ arrivals = <<>>
    /\ callback_buffer = <<>>
    /\ calls = <<>>
    /\ pollLog[pollNo].result = "active"

----------------------------------------------------------------------------
(* The LED channel: range of the channels, partial updates *)

InByteRange(color) == \A k \in 1..3 : color[k].num /\ color[k].v \in 0..255

\* C27: every channel of a written color is clamped to 0..255: the cached color, the
\* duties applied to the LED and every color published on <root>/read are within
\* 0..255.
C27_ChannelsClamped ==
    /\ InByteRange(current_color)
    /\ \A k \in 1..3 : rgb[k] \in 0..255
    /\ \A k \in 1..Len(ledPublished) : InByteRange(ledPublished[k].color)

\* the handler of the LED write topic returns from a JSON object whose fields are
\* numbers
LedObjectStep ==
    /\ pollPc = "handler"
    /\ callbacks[cur.topic][idx] = LedHandler
    /\ calls' # calls
    /\ cur.payload.shape = "object"
    /\ \A f \in DOMAIN cur.payload.obj : cur.payload.obj[f].num

\* the cached color overridden by the fields of a JSON object
Overridden(cc, obj) ==
    <<IF "r" \in DOMAIN obj THEN obj["r"] ELSE cc[1],
      IF "g" \in DOMAIN obj THEN obj["g"] ELSE cc[2],
      IF "b" \in DOMAIN obj THEN obj["b"] ELSE cc[3]>>

\* C28: a message on <root>/write sets the color to the cached color overridden by
\* the fields present, and publishes it if it differs; a payload without fields
\* leaves the color unchanged and publishes nothing.
C28_PartialUpdate ==
    [][LedObjectStep =>
          LET new == Overridden(current_color, cur.payload.obj) IN
          /\ current_color' = new
          /\ rgb' = <<new[1].v, new[2].v, new[3].v>>
          /\ ledPublished' = IF new = current_color
                             THEN ledPublished
                             ELSE Append(ledPublished,
                                         [topic |-> LedReadTopic, color |-> new])
          /\ DOMAIN cur.payload.obj = {} =>
                 current_color' = current_color /\ ledPublished' = ledPublished]_vars

LedWhite == <<Num(255), Num(255), Num(255)>>

\* {"g": 255} was received while the cached color was magenta: the color is white,
\* and it was published
C28_Witness ==
    /\ lastLedWrite.called
    /\ lastLedWrite.before = LedMagenta
    /\ lastLedWrite.color = LedWhite
    /\ current_color = LedWhite
    /\ rgb = <<255, 255, 255>>
    /\ ledPublished[Len(ledPublished)] = [topic |-> LedReadTopic, color |-> LedWhite]

----------------------------------------------------------------------------
(* The audio protocol over a stream that delivers packets in parts *)

\* the sender waits for an ack that will never come: none is on its way and the
\* session can send no more
StreamerStuck(c) ==
    /\ sess[c].client = "recv"
    /\ sess[c].acks = 0
    /\ \/ sess[c].pc = "done"
       \/ sess[c].pc = "data" /\ sess[c].rbuf = 0 /\ ~sess[c].eof

\* the sender of a stream of a supported width never waits for an ack forever
StreamerNeverStuck ==
    \A c \in Conns : I2S_supports(sess[c].hdr.bits) => ~StreamerStuck(c)

\* C29: sender and player both come to their end: the sender never waits for an ack
\* that will not come, and when the loop of the player has ended and the sender
\* has sent everything, the player has read every byte that was sent.
C29_BothTerminate ==
    \A c \in Conns :
        I2S_supports(sess[c].hdr.bits) =>
            /\ ~StreamerStuck(c)
            /\ (sess[c].pc = "done" /\ sess[c].client \in {"done", "closed"})
                   => sess[c].rbuf = 0

----------------------------------------------------------------------------
(* The poll task after an exception *)

\* the poll task has ended: an exception left poll_loop
TaskEnded == taskPc = "dead"

\* C30: once the poll task has ended because a handler exception propagated, the
\* client never polls again: loop_task stays set, every later start raises
\* RuntimeError and creates no task, no handler runs, and no message leaves the
\* queue (the task had been started with ignore_errors false).
C30_NoResumeAfterError ==
    [][TaskEnded =>
          /\ ~taskIgnore
          /\ pollLog[pollNo].result = "raised"
          /\ loop_task = "Task"
          /\ loop_task' = "Task"
          /\ taskPc' = "dead"
          /\ pollPc' = "idle"
          /\ tasksCreated' = tasksCreated
          /\ starts' # starts => startResult' = "RuntimeError"
          /\ calls' = calls
          /\ pollLog' = pollLog
          /\ IsPrefix(callback_buffer, callback_buffer')]_vars

\* the task has ended, a later start has raised, and a message that arrived after
\* the end waits in the queue
C30_Witness ==
    /\ TaskEnded
    /\ starts = 2
    /\ tasksCreated = 1
    /\ startResult = "RuntimeError"
    /\ callback_buffer # <<>>
    /\ Len(arrivals) = 2
    /\ Len(calls) = 1
    /\ calls[1].raised

----------------------------------------------------------------------------
(* The strip channel: the cache and the strip *)

\* a color: a tuple of three ints of 0..255
IsColor(c) == Len(c) = 3 /\ \A k \in 1..3 : c[k] \in 0..255

====
